---- MODULE Spec2Model ----
(***************************************************************************)
(* A model of package goset: the Set contract (set.go) and its hash-backed *)
(* realization HashSet (hashset.go).                                       *)
(*                                                                         *)
(* A HashSet is a Go map, which is a reference: two HashSet values may be  *)
(* the same live map.  The model keeps a heap of maps; a HashSet value is  *)
(* an index into it, and heap[r] is the key set of map r (a map[T]struct{} *)
(* holds nothing but its keys).  A caller is either between two calls      *)
(* (pc = "ready") or has just been handed a call's result                  *)
(* (pc = "returned"); `last` is that call: the method, its operands, what  *)
(* it returned and the heap it was called on.                              *)
(*                                                                         *)
(* A Go `for ... range m` over a map visits the entries in an unspecified  *)
(* order; an entry removed before it is reached is not produced, and an    *)
(* entry created during the loop may be produced or skipped.  Every loop   *)
(* of the package is modelled with exactly this freedom, so an operation   *)
(* yields the SET of its possible outcomes.                                *)
(***************************************************************************)
EXTENDS Integers, Sequences, FiniteSets

\* Elements are 1..MaxElem (the type parameter T, comparable).
MaxElem == 2
\* At most MaxSets maps are ever allocated.
MaxSets == 3

Elem == 1..MaxElem

\* heap:  the maps allocated so far, heap[r] the key set of map r
\* fresh: the maps NewHashSet returned on which no mutating method (Add,
\*        Remove, Merge, Retain, Subtract, Xor) has been called yet
\* pc:    "ready" between two calls, "returned" when a call has just returned
\* last:  the call that has just returned (NoCall between two calls)
VARIABLES heap, fresh, pc, last

vars == <<heap, fresh, pc, last>>

Refs(h) == 1..Len(h)

----------------------------------------------------------------------------
(* hashset.go: the basic operations.  h is the heap, set/other are maps.   *)

\* A slip: the constructor leaves a key (the zero value) in the new map.
NewHashSetNonEmpty == {1}

\* make(HashSet[T]): a new map with no key.
NewHashSet == {}

\* maps.Clone(set): a new map with the keys of set.
Clone(h, set) == h[set]

\* set[element] = struct{}{}
Add(h, set, element) == [h EXCEPT ![set] = @ \cup {element}]

\* A slip: clear(set) in the place of delete(set, element).
RemoveClears(h, set, element) == [h EXCEPT ![set] = {}]

\* delete(set, element)
Remove(h, set, element) == [h EXCEPT ![set] = @ \ {element}]

\* _, ok := set[element]; return ok
Contains(h, set, element) == element \in h[set]

\* len(set)
HashSetLen(h, set) == Cardinality(h[set])

----------------------------------------------------------------------------
(* The loop bodies of the algebra operations, one per method.  newset is   *)
(* the map the allocating operations build (0 for the in-place ones).      *)

UnionBody(h, set, other, newset, element) == Add(h, newset, element)

IntersectionBody(h, set, other, newset, element) ==
    IF Contains(h, set, element) THEN Add(h, newset, element) ELSE h

\* A slip: the negation of the membership test is lost.
DifferenceBodyNoNegation(h, set, other, newset, element) ==
    IF Contains(h, other, element) THEN Add(h, newset, element) ELSE h

DifferenceBody(h, set, other, newset, element) ==
    IF ~Contains(h, other, element) THEN Add(h, newset, element) ELSE h

SymmetricDifferenceBody(h, set, other, newset, element) ==
    IF Contains(h, newset, element)
    THEN Remove(h, newset, element)
    ELSE Add(h, newset, element)

MergeBody(h, set, other, newset, element) == Add(h, set, element)

\* A slip: Retain drops the elements the other set holds (Subtract's test).
RetainBodyInverted(h, set, other, newset, item) ==
    IF Contains(h, other, item) THEN Remove(h, set, item) ELSE h

RetainBody(h, set, other, newset, item) ==
    IF ~Contains(h, other, item) THEN Remove(h, set, item) ELSE h

SubtractBody(h, set, other, newset, item) ==
    IF Contains(h, other, item) THEN Remove(h, set, item) ELSE h

\* A slip: Xor never removes, it only adds what is missing.
XorBodyNoRemove(h, set, other, newset, element) ==
    IF Contains(h, set, element) THEN h ELSE Add(h, set, element)

XorBody(h, set, other, newset, element) ==
    IF Contains(h, set, element)
    THEN Remove(h, set, element)
    ELSE Add(h, set, element)

Body(method, h, set, other, newset, e) ==
    CASE method = "Union" -> UnionBody(h, set, other, newset, e)
      [] method = "Intersection" -> IntersectionBody(h, set, other, newset, e)
      [] method = "Difference" -> DifferenceBody(h, set, other, newset, e)
      [] method = "SymmetricDifference" ->
             SymmetricDifferenceBody(h, set, other, newset, e)
      [] method = "Merge" -> MergeBody(h, set, other, newset, e)
      [] method = "Retain" -> RetainBody(h, set, other, newset, e)
      [] method = "Subtract" -> SubtractBody(h, set, other, newset, e)
      [] method = "Xor" -> XorBody(h, set, other, newset, e)

(* `for e := range src` (and `range src.All()`, which is maps.Keys(src),   *)
(* the same traversal of the live map) running Body on each entry.  todo   *)
(* holds the entries still to be produced.  An entry of todo that the body *)
(* has deleted is not produced; of the entries the body created in src,    *)
(* any subset c is produced later.  The result is the set of heaps the     *)
(* loop can end with.                                                      *)
RECURSIVE Range(_, _, _, _, _, _, _)
Range(method, h, set, other, newset, src, todo) ==
    LET live == todo \cap h[src] IN
    IF live = {} THEN {h}
    ELSE UNION { LET h2 == Body(method, h, set, other, newset, e)
                     created == h2[src] \ h[src]
                 IN  UNION { Range(method, h2, set, other, newset, src,
                                   ((todo \ {e}) \cap h2[src]) \cup c)
                             : c \in SUBSET created }
               : e \in live }

----------------------------------------------------------------------------
(* The allocating operations: the set of possible [heap, ret] outcomes,    *)
(* ret being the map returned.                                             *)

Alloc(h, keys) == Append(h, keys)

\* A slip: Union without maps.Clone, adding to the receiver and returning it.
UnionNoClone(h, set, other) ==
    { [heap |-> h2, ret |-> set]
      : h2 \in Range("Union", h, set, other, set, other, h[other]) }

Union(h, set, other) ==
    LET newset == Len(h) + 1
        h1 == Alloc(h, Clone(h, set))
    IN  { [heap |-> h2, ret |-> newset]
          : h2 \in Range("Union", h1, set, other, newset, other, h1[other]) }

\* A slip: Intersection starts from a clone of the receiver, as Union does.
IntersectionFromClone(h, set, other) ==
    LET newset == Len(h) + 1
        h1 == Alloc(h, Clone(h, set))
    IN  { [heap |-> h2, ret |-> newset]
          : h2 \in Range("Intersection", h1, set, other, newset, other,
                         h1[other]) }

Intersection(h, set, other) ==
    LET newset == Len(h) + 1
        h1 == Alloc(h, NewHashSet)
    IN  { [heap |-> h2, ret |-> newset]
          : h2 \in Range("Intersection", h1, set, other, newset, other,
                         h1[other]) }

Difference(h, set, other) ==
    LET newset == Len(h) + 1
        h1 == Alloc(h, NewHashSet)
    IN  { [heap |-> h2, ret |-> newset]
          : h2 \in Range("Difference", h1, set, other, newset, set, h1[set]) }

SymmetricDifference(h, set, other) ==
    LET newset == Len(h) + 1
        h1 == Alloc(h, Clone(h, set))
    IN  { [heap |-> h2, ret |-> newset]
          : h2 \in Range("SymmetricDifference", h1, set, other, newset, other,
                         h1[other]) }

(* The in-place operations: the set of possible heaps.                     *)

Merge(h, set, other) == Range("Merge", h, set, other, 0, other, h[other])

Retain(h, set, other) == Range("Retain", h, set, other, 0, set, h[set])

Subtract(h, set, other) == Range("Subtract", h, set, other, 0, set, h[set])

Xor(h, set, other) == Range("Xor", h, set, other, 0, other, h[other])

----------------------------------------------------------------------------
(* The relations.  Each one compares the cardinalities and then runs       *)
(*     for item := range set { if !other.Contains(item) { return false } } *)
(*     return true                                                         *)
(* which Scan models: the set of values the loop can return.               *)

RECURSIVE Scan(_, _, _)
Scan(h, other, todo) ==
    IF todo = {} THEN {TRUE}
    ELSE UNION { IF ~Contains(h, other, item)
                 THEN {FALSE}
                 ELSE Scan(h, other, todo \ {item})
               : item \in todo }

Equals(h, set, other) ==
    IF HashSetLen(h, set) # HashSetLen(h, other)
    THEN {FALSE}
    ELSE Scan(h, other, h[set])

IsSuperset(h, set, other) ==
    IF HashSetLen(h, set) < HashSetLen(h, other)
    THEN {FALSE}
    ELSE Scan(h, other, h[set])

\* A slip: the cardinality test of IsSubset the wrong way round.
IsSubsetLenSwapped(h, set, other) ==
    IF HashSetLen(h, set) < HashSetLen(h, other)
    THEN {FALSE}
    ELSE Scan(h, other, h[set])

IsSubset(h, set, other) ==
    IF HashSetLen(h, set) > HashSetLen(h, other)
    THEN {FALSE}
    ELSE Scan(h, other, h[set])

----------------------------------------------------------------------------
(* Enumeration: the sequences a traversal can produce.                     *)

\* for item := range set { elements = append(elements, item) }
RECURSIVE ElementsLoop(_, _)
ElementsLoop(todo, elements) ==
    IF todo = {} THEN {elements}
    ELSE UNION { ElementsLoop(todo \ {item}, Append(elements, item))
                 : item \in todo }

\* A slip: make([]T, len(set)) in the place of make([]T, 0, len(set)), so
\* the slice starts with len(set) zero values.
ElementsPrefilled(h, set) ==
    ElementsLoop(h[set], [i \in 1..HashSetLen(h, set) |-> 0])

Elements(h, set) == ElementsLoop(h[set], << >>)

\* maps.Keys(set), ranged over to its end: the keys it yields, in order.
RECURSIVE Keys(_, _)
Keys(todo, yielded) ==
    IF todo = {} THEN {yielded}
    ELSE UNION { Keys(todo \ {k}, Append(yielded, k)) : k \in todo }

All(h, set) == Keys(h[set], << >>)

----------------------------------------------------------------------------
(* The state machine: a caller making one call after another.              *)

\* What a call returns, by type: a map or an int (ret), a bool (ok) or a
\* sequence of elements (elements); the fields a method does not return
\* keep their zero value.
Void == [ret |-> 0, ok |-> FALSE, elements |-> << >>]

Value(n) == [Void EXCEPT !.ret = n]

Bool(b) == [Void EXCEPT !.ok = b]

Slice(s) == [Void EXCEPT !.elements = s]

NoCall == [op |-> "none", set |-> 0, other |-> 0, element |-> 0,
           ret |-> 0, ok |-> FALSE, elements |-> << >>, pre |-> << >>]

Init ==
    /\ heap = << >>
    /\ fresh = {}
    /\ pc = "ready"
    /\ last = NoCall

\* The call op(set, other/element) made on the current heap returned res
\* and left the heap h2.
Returned(op, set, other, element, res, h2) ==
    /\ heap' = h2
    /\ pc' = "returned"
    /\ last' = [op |-> op, set |-> set, other |-> other, element |-> element,
                ret |-> res.ret, ok |-> res.ok, elements |-> res.elements,
                pre |-> heap]

CallNewHashSet ==
    /\ pc = "ready"
    /\ Len(heap) < MaxSets
    /\ Returned("NewHashSet", 0, 0, 0, Value(Len(heap) + 1),
                Alloc(heap, NewHashSet))
    /\ fresh' = fresh \cup {Len(heap) + 1}

CallAdd ==
    /\ pc = "ready"
    /\ \E set \in Refs(heap), element \in Elem :
          /\ Returned("Add", set, 0, element, Void, Add(heap, set, element))
          /\ fresh' = fresh \ {set}

CallRemove ==
    /\ pc = "ready"
    /\ \E set \in Refs(heap), element \in Elem :
          /\ Returned("Remove", set, 0, element, Void,
                      Remove(heap, set, element))
          /\ fresh' = fresh \ {set}

CallContains ==
    /\ pc = "ready"
    /\ \E set \in Refs(heap), element \in Elem :
          Returned("Contains", set, 0, element,
                   Bool(Contains(heap, set, element)), heap)
    /\ UNCHANGED fresh

\* The allocating operations return one of their outcomes; the heap is
\* bounded, so they are called only while a map can still be allocated.
CallUnion ==
    /\ pc = "ready"
    /\ Len(heap) < MaxSets
    /\ \E set \in Refs(heap), other \in Refs(heap) :
          \E out \in Union(heap, set, other) :
             Returned("Union", set, other, 0, Value(out.ret), out.heap)
    /\ UNCHANGED fresh

CallIntersection ==
    /\ pc = "ready"
    /\ Len(heap) < MaxSets
    /\ \E set \in Refs(heap), other \in Refs(heap) :
          \E out \in Intersection(heap, set, other) :
             Returned("Intersection", set, other, 0, Value(out.ret), out.heap)
    /\ UNCHANGED fresh

CallDifference ==
    /\ pc = "ready"
    /\ Len(heap) < MaxSets
    /\ \E set \in Refs(heap), other \in Refs(heap) :
          \E out \in Difference(heap, set, other) :
             Returned("Difference", set, other, 0, Value(out.ret), out.heap)
    /\ UNCHANGED fresh

CallSymmetricDifference ==
    /\ pc = "ready"
    /\ Len(heap) < MaxSets
    /\ \E set \in Refs(heap), other \in Refs(heap) :
          \E out \in SymmetricDifference(heap, set, other) :
             Returned("SymmetricDifference", set, other, 0, Value(out.ret),
                      out.heap)
    /\ UNCHANGED fresh

\* The in-place operations leave one of their outcomes.
CallMerge ==
    /\ pc = "ready"
    /\ \E set \in Refs(heap), other \in Refs(heap) :
          /\ \E h2 \in Merge(heap, set, other) :
                Returned("Merge", set, other, 0, Void, h2)
          /\ fresh' = fresh \ {set}

CallRetain ==
    /\ pc = "ready"
    /\ \E set \in Refs(heap), other \in Refs(heap) :
          /\ \E h2 \in Retain(heap, set, other) :
                Returned("Retain", set, other, 0, Void, h2)
          /\ fresh' = fresh \ {set}

CallSubtract ==
    /\ pc = "ready"
    /\ \E set \in Refs(heap), other \in Refs(heap) :
          /\ \E h2 \in Subtract(heap, set, other) :
                Returned("Subtract", set, other, 0, Void, h2)
          /\ fresh' = fresh \ {set}

CallXor ==
    /\ pc = "ready"
    /\ \E set \in Refs(heap), other \in Refs(heap) :
          /\ \E h2 \in Xor(heap, set, other) :
                Returned("Xor", set, other, 0, Void, h2)
          /\ fresh' = fresh \ {set}

\* The relations return one of the values their loop can return.
CallEquals ==
    /\ pc = "ready"
    /\ \E set \in Refs(heap), other \in Refs(heap) :
          \E ok \in Equals(heap, set, other) :
             Returned("Equals", set, other, 0, Bool(ok), heap)
    /\ UNCHANGED fresh

CallIsSuperset ==
    /\ pc = "ready"
    /\ \E set \in Refs(heap), other \in Refs(heap) :
          \E ok \in IsSuperset(heap, set, other) :
             Returned("IsSuperset", set, other, 0, Bool(ok), heap)
    /\ UNCHANGED fresh

CallIsSubset ==
    /\ pc = "ready"
    /\ \E set \in Refs(heap), other \in Refs(heap) :
          \E ok \in IsSubset(heap, set, other) :
             Returned("IsSubset", set, other, 0, Bool(ok), heap)
    /\ UNCHANGED fresh

CallElements ==
    /\ pc = "ready"
    /\ \E set \in Refs(heap) :
          \E elements \in Elements(heap, set) :
             Returned("Elements", set, 0, 0, Slice(elements), heap)
    /\ UNCHANGED fresh

CallAll ==
    /\ pc = "ready"
    /\ \E set \in Refs(heap) :
          \E yielded \in All(heap, set) :
             Returned("All", set, 0, 0, Slice(yielded), heap)
    /\ UNCHANGED fresh

CallLen ==
    /\ pc = "ready"
    /\ \E set \in Refs(heap) :
          Returned("Len", set, 0, 0, Value(HashSetLen(heap, set)), heap)
    /\ UNCHANGED fresh

\* The caller takes the result and goes on to its next call.
Continue ==
    /\ pc = "returned"
    /\ pc' = "ready"
    /\ last' = NoCall
    /\ UNCHANGED <<heap, fresh>>

Next ==
    \/ CallNewHashSet
    \/ CallAdd
    \/ CallRemove
    \/ CallContains
    \/ CallUnion
    \/ CallIntersection
    \/ CallDifference
    \/ CallSymmetricDifference
    \/ CallMerge
    \/ CallRetain
    \/ CallSubtract
    \/ CallXor
    \/ CallEquals
    \/ CallIsSuperset
    \/ CallIsSubset
    \/ CallElements
    \/ CallAll
    \/ CallLen
    \/ Continue

Spec == Init /\ [][Next]_vars

----------------------------------------------------------------------------
(* What the claims speak of: the call just returned, its operands before   *)
(* the call (Pre) and the heap it left (heap).                             *)

Called(op) == pc = "returned" /\ last.op = op

Pre == last.pre

Aliased == last.set = last.other

InPlaceOps == {"Merge", "Retain", "Subtract", "Xor"}

AllocatingOps == {"Union", "Intersection", "Difference", "SymmetricDifference"}

RelationOps == {"Equals", "IsSuperset", "IsSubset"}

\* C1 (as claimed): A.IsSuperset(B) returns true exactly when every element
\* of B is an element of A, which is also what B.IsSubset(A) returns.
C1_IsSupersetContainsAll ==
    Called("IsSuperset") =>
        /\ last.ok = (Pre[last.other] \subseteq Pre[last.set])
        /\ last.ok \in IsSubset(Pre, last.other, last.set)

\* C2: A.IsSubset(B) returns true exactly when every element of A is in B,
\* and A.IsSubset(B) and B.IsSubset(A) are both true iff A.Equals(B) is.
C2_IsSubsetAndEquals ==
    /\ Called("IsSubset") =>
          last.ok = (Pre[last.set] \subseteq Pre[last.other])
    /\ Called("Equals") =>
          \A ab \in IsSubset(Pre, last.set, last.other) :
             \A ba \in IsSubset(Pre, last.other, last.set) :
                last.ok = (ab /\ ba)

\* C2's case: IsSubset has returned true for a non-empty proper subset.
C2_Witness ==
    /\ Called("IsSubset")
    /\ last.ok
    /\ Pre[last.set] # {}
    /\ Pre[last.set] # Pre[last.other]

\* C3 (as claimed): A.Xor(A) is a no-op, A holds exactly the elements it
\* held before the call.
C3_XorSelfNoOp ==
    (Called("Xor") /\ Aliased) => heap[last.set] = Pre[last.set]

\* C3 (amended): A.Xor(A) empties A (the symmetric difference of A with
\* itself), whatever order the elements are visited in, and changes no
\* other set.
C3_XorSelfEmpties ==
    (Called("Xor") /\ Aliased) =>
        /\ heap[last.set] = {}
        /\ HashSetLen(heap, last.set) = 0
        /\ \A r \in Refs(Pre) \ {last.set} : heap[r] = Pre[r]

\* C3's case: Xor was called on a non-empty set with itself as argument.
C3_Witness ==
    /\ Called("Xor")
    /\ Aliased
    /\ Cardinality(Pre[last.set]) >= 2

\* C4: with A as its own argument, A.Merge(A) and A.Retain(A) leave A's
\* elements unchanged and A.Subtract(A) leaves A empty, in every visiting
\* order of the loop over the map being changed.
C4_SelfInPlace ==
    /\ (Called("Merge") /\ Aliased) => heap = Pre
    /\ (Called("Retain") /\ Aliased) => heap = Pre
    /\ (Called("Subtract") /\ Aliased) =>
          /\ heap[last.set] = {}
          /\ HashSetLen(heap, last.set) = 0
          /\ \A r \in Refs(Pre) \ {last.set} : heap[r] = Pre[r]

\* C4's case: Subtract has run on a set of several elements with itself as
\* argument, deleting from the map it was ranging over.
C4_Witness ==
    /\ Called("Subtract")
    /\ Aliased
    /\ Cardinality(Pre[last.set]) >= 2

\* The allocating counterpart of an in-place operation.
Counterpart(op, h, set, other) ==
    CASE op = "Merge" -> Union(h, set, other)
      [] op = "Retain" -> Intersection(h, set, other)
      [] op = "Subtract" -> Difference(h, set, other)
      [] op = "Xor" -> SymmetricDifference(h, set, other)

\* C5: with B a distinct instance, the in-place operation leaves in A the
\* set its allocating counterpart returns for the A and B of before the
\* call (the same elements, and Equals says so): Merge/Union,
\* Retain/Intersection, Subtract/Difference, Xor/SymmetricDifference.
C5_InPlaceEqualsAllocating ==
    \A op \in InPlaceOps :
       (Called(op) /\ ~Aliased) =>
           \A out \in Counterpart(op, Pre, last.set, last.other) :
              /\ out.heap[out.ret] = heap[last.set]
              /\ Equals(Alloc(heap, out.heap[out.ret]), last.set,
                        Len(heap) + 1) = {TRUE}

\* C5's case: Retain has dropped some but not all elements of A, B being
\* another instance.
C5_Witness ==
    /\ Called("Retain")
    /\ ~Aliased
    /\ heap[last.set] # {}
    /\ heap[last.set] # Pre[last.set]

\* The mathematical result of an allocating operation on key sets a and b.
Math(op, a, b) ==
    CASE op = "Union" -> a \cup b
      [] op = "Intersection" -> a \cap b
      [] op = "Difference" -> a \ b
      [] op = "SymmetricDifference" -> (a \ b) \cup (b \ a)

\* The outcomes of the allocating operation op.
Allocating(op, h, set, other) ==
    CASE op = "Union" -> Union(h, set, other)
      [] op = "Intersection" -> Intersection(h, set, other)
      [] op = "Difference" -> Difference(h, set, other)
      [] op = "SymmetricDifference" -> SymmetricDifference(h, set, other)

\* C6: for all A and B, empty or not, B the same instance as A or not, the
\* allocating operations return the mathematical result; Union, Intersection
\* and SymmetricDifference return the same elements with the operands
\* exchanged; and A.Difference(B).Union(A.Intersection(B)).Equals(A).
C6_AllocatingResults ==
    /\ \A op \in AllocatingOps :
          Called(op) =>
             /\ heap[last.ret] = Math(op, Pre[last.set], Pre[last.other])
             /\ op # "Difference" =>
                  \A out \in Allocating(op, Pre, last.other, last.set) :
                     out.heap[out.ret] = heap[last.ret]
    /\ pc = "ready" =>
          \A a \in Refs(heap), b \in Refs(heap) :
             \A d \in Difference(heap, a, b) :
                \A i \in Intersection(d.heap, a, b) :
                   \A u \in Union(i.heap, d.ret, i.ret) :
                      Equals(u.heap, u.ret, a) = {TRUE}

\* C6's case: SymmetricDifference has returned for two sets that overlap
\* without being equal.
C6_Witness ==
    /\ Called("SymmetricDifference")
    /\ Pre[last.set] \cap Pre[last.other] # {}
    /\ Pre[last.set] # Pre[last.other]
    /\ heap[last.ret] # {}

\* C7: for distinct instances A and B no operation on A with argument B
\* changes B; an allocating operation changes no set that existed and
\* returns a set that did not exist before (it shares no storage with A or
\* B); and a mutation (Add, Remove, an in-place operation) changes no set
\* but its receiver, so mutating a result leaves the operands alone and
\* mutating an operand leaves the result alone.
C7_Frame ==
    /\ \A op \in InPlaceOps \cup AllocatingOps \cup RelationOps :
          (Called(op) /\ ~Aliased) => heap[last.other] = Pre[last.other]
    /\ \A op \in AllocatingOps :
          Called(op) =>
             /\ last.ret \notin Refs(Pre)
             /\ last.ret \in Refs(heap)
             /\ \A r \in Refs(Pre) : heap[r] = Pre[r]
    /\ \A op \in InPlaceOps \cup {"Add", "Remove"} :
          Called(op) =>
             /\ Refs(heap) = Refs(Pre)
             /\ \A r \in Refs(Pre) \ {last.set} : heap[r] = Pre[r]

\* C7's case: Union of two distinct non-empty instances has returned a set
\* that differs from both operands.
C7_Witness ==
    /\ Called("Union")
    /\ ~Aliased
    /\ heap[last.ret] # Pre[last.set]
    /\ heap[last.ret] # Pre[last.other]

\* C8: Add(x) with x present and Remove(x) with x absent leave the elements
\* and Len() unchanged; after Add(x) Contains(x) is true, after Remove(x) it
\* is false, and no other element's membership changes.
C8_AddRemove ==
    /\ Called("Add") =>
          /\ Contains(heap, last.set, last.element)
          /\ \A y \in Elem \ {last.element} :
                Contains(heap, last.set, y) = Contains(Pre, last.set, y)
          /\ Contains(Pre, last.set, last.element) =>
                /\ heap[last.set] = Pre[last.set]
                /\ HashSetLen(heap, last.set) = HashSetLen(Pre, last.set)
    /\ Called("Remove") =>
          /\ ~Contains(heap, last.set, last.element)
          /\ \A y \in Elem \ {last.element} :
                Contains(heap, last.set, y) = Contains(Pre, last.set, y)
          /\ ~Contains(Pre, last.set, last.element) =>
                /\ heap[last.set] = Pre[last.set]
                /\ HashSetLen(heap, last.set) = HashSetLen(Pre, last.set)

\* C8's case: Add of an element that was already present, beside another
\* element.
C8_Witness ==
    /\ Called("Add")
    /\ Contains(Pre, last.set, last.element)
    /\ HashSetLen(Pre, last.set) >= 2

\* C9: a set returned by NewHashSet is a new set with Len() 0 and
\* Contains(x) false for every x, and stays so until an operation is called
\* on it that may add to it.
C9_NewHashSetEmpty ==
    /\ Called("NewHashSet") =>
          /\ last.ret \in fresh
          /\ last.ret \in Refs(heap) \ Refs(Pre)
    /\ \A r \in fresh :
          /\ HashSetLen(heap, r) = 0
          /\ \A x \in Elem : ~Contains(heap, r, x)

\* C9's case: NewHashSet has returned while another set holds elements.
C9_Witness ==
    /\ Called("NewHashSet")
    /\ \E r \in Refs(Pre) : Pre[r] # {}

NoDuplicates(s) == \A i \in 1..Len(s), j \in 1..Len(s) : s[i] = s[j] => i = j

\* C10: after any sequence of calls every set has Len() equal to the number
\* of distinct x with Contains(x); Elements() has exactly Len() entries and
\* no duplicates; every element of Elements() or All() satisfies Contains.
C10_Cardinality ==
    \A r \in Refs(heap) :
       /\ HashSetLen(heap, r) =
             Cardinality({x \in Elem : Contains(heap, r, x)})
       /\ \A s \in Elements(heap, r) :
             /\ Len(s) = HashSetLen(heap, r)
             /\ NoDuplicates(s)
             /\ \A i \in 1..Len(s) : Contains(heap, r, s[i])
       /\ \A s \in All(heap, r) :
             \A i \in 1..Len(s) : Contains(heap, r, s[i])

\* C10's case: Elements has returned several elements of a set that earlier
\* calls have changed.
C10_Witness ==
    /\ Called("Elements")
    /\ Len(last.elements) >= 2
    /\ last.set \notin fresh

====
